---- MODULE Spec2Model ----
(***************************************************************************)
(* Model of src/result-mapper.js: the clipping of a stream period to a     *)
(* reporting window (getDailyAmounts) and its decomposition into daily     *)
(* amounts aligned to UTC midnights (calculateDailyAmounts and helpers).   *)
(*                                                                         *)
(* A moment is represented by its UTC instant in whole seconds: every      *)
(* moment of the code is built by moment.unix(<integer seconds>).utc() and *)
(* is only changed by add/subtract(1,'days') and startOf('day'), so its    *)
(* millisecond part is always 0.  JavaScript numbers are modelled as exact *)
(* integers; all values of the model stay far below 2^53.                  *)
(***************************************************************************)
EXTENDS Integers, Sequences, FiniteSets

VARIABLES pc, streamPeriod, startTimestamp, endTimestamp,
          startMoment, endMoment, flowRate, dailyAmounts

vars == <<pc, streamPeriod, startTimestamp, endTimestamp,
          startMoment, endMoment, flowRate, dailyAmounts>>

\* ---------------------------------------------------------------- bounds
\* Days 0..MaxDay are the UTC days the small inputs are drawn from.
MaxDay == 3
\* Flow rates are drawn from -MaxRate..MaxRate.
MaxRate == 2

\* ------------------------------------------------------ moment.js (UTC)
\* Length in seconds of one UTC day: add(1, 'days') on a UTC moment.
DAY == 86400

\* moment.unix(n).utc(): the moment of the integer unix timestamp n.
MomentUnix(n) == n

\* m.unix(): the unix timestamp (seconds) of moment m.
Unix(m) == m

\* m.clone().add(n, 'days') (n may be negative: subtract).
AddDays(m, n) == m + n * DAY

\* m.startOf('day') in UTC mode: m - mod(m, MS_PER_DAY).
StartOfDay(m) == m - (m % DAY)

\* a.isAfter(b)
IsAfter(a, b) == a > b

\* a.isSame(b)
IsSame(a, b) == a = b

\* a.diff(b, 'seconds')
DiffSeconds(a, b) == a - b

\* Math.max / Math.min
MathMax(a, b) == IF a >= b THEN a ELSE b

MathMin(a, b) == IF a <= b THEN a ELSE b

\* An optional number is <<>> (null) or <<n>>.
NULL == <<>>

\* !!x for x null or a number: null and 0 are falsy.
Truthy(x) == x # NULL /\ x[1] # 0

\* ------------------------------------------------------ result-mapper.js
createDailyAmount(startTime, endTime, quantityInToken) ==
    [startTime |-> Unix(startTime), endTime |-> Unix(endTime),
     quantityInToken |-> quantityInToken]

\* Mutant: the operands of diff swapped.
getFlowedTokenQuantityBetween_swapped(startTime, endTime, rate) ==
    DiffSeconds(startTime, endTime) * rate

\* Mutant: a falsy product falls back to the duration (x || y idiom).
getFlowedTokenQuantityBetween_fallback(startTime, endTime, rate) ==
    IF DiffSeconds(endTime, startTime) * rate # 0
    THEN DiffSeconds(endTime, startTime) * rate
    ELSE DiffSeconds(endTime, startTime)

getFlowedTokenQuantityBetween(startTime, endTime, rate) ==
    DiffSeconds(endTime, startTime) * rate

\* Mutant: nextDayStart computed without add(1, 'days').
spansDays_noAdd(start, end) == IsAfter(end, StartOfDay(start))

\* Mutant: "spans days" decided by comparing the two calendar days.
spansDays_otherDay(start, end) == StartOfDay(end) # StartOfDay(start)

\* Lines 72-73: nextDayStart and spansDays.
spansDays(start, end) == IsAfter(end, StartOfDay(AddDays(start, 1)))

\* Mutant: the first amount ends one day after start, not at midnight.
calculateFirstDailyAmount_noStartOf(start, end, spans, rate) ==
    LET firstEndTime == IF spans THEN AddDays(start, 1) ELSE end
    IN  createDailyAmount(start, firstEndTime,
            getFlowedTokenQuantityBetween(start, firstEndTime, rate))

calculateFirstDailyAmount(start, end, spans, rate) ==
    LET firstEndTime == IF spans THEN StartOfDay(AddDays(start, 1)) ELSE end
        firstTokenQuantity == getFlowedTokenQuantityBetween(start, firstEndTime, rate)
    IN  createDailyAmount(start, firstEndTime, firstTokenQuantity)

calculateLastDailyAmount(lastStartTime, end, rate) ==
    createDailyAmount(lastStartTime, end,
        getFlowedTokenQuantityBetween(lastStartTime, end, rate))

\* The while loop of calculateDailyAmountsForFullDaysBetween (lines 123-130).
RECURSIVE fullDaysLoop(_, _, _, _)
fullDaysLoop(startOfNextFullDay, end, rate, fullDayAmounts) ==
    IF IsAfter(end, startOfNextFullDay) \/ IsSame(end, startOfNextFullDay)
    THEN LET startTime == StartOfDay(AddDays(startOfNextFullDay, -1))
             endTime == startOfNextFullDay
             quantityInToken == getFlowedTokenQuantityBetween(startTime, endTime, rate)
         IN  fullDaysLoop(StartOfDay(AddDays(startOfNextFullDay, 1)), end, rate,
                 Append(fullDayAmounts,
                        createDailyAmount(startTime, endTime, quantityInToken)))
    ELSE fullDayAmounts

\* Mutant: lastEndTime never advances past the start of the phase.
calculateDailyAmountsForFullDaysBetween_staleCursor(start, end, rate) ==
    LET full == fullDaysLoop(StartOfDay(AddDays(start, 1)), end, rate, <<>>)
    IN  [fullDayAmounts |-> full, lastEndTime |-> start]

\* Mutant: the first "next full day" computed without add(1, 'days').
calculateDailyAmountsForFullDaysBetween_noAdd(start, end, rate) ==
    LET full == fullDaysLoop(StartOfDay(start), end, rate, <<>>)
    IN  [fullDayAmounts |-> full,
         lastEndTime |-> IF Len(full) > 0
                         THEN MomentUnix(full[Len(full)].endTime) ELSE start]

calculateDailyAmountsForFullDaysBetween(start, end, rate) ==
    LET full == fullDaysLoop(StartOfDay(AddDays(start, 1)), end, rate, <<>>)
    IN  [fullDayAmounts |-> full,
         lastEndTime |-> IF Len(full) > 0
                         THEN MomentUnix(full[Len(full)].endTime) ELSE start]

\* Mutant: the last amount is computed even when the cursor is at the end.
calculateDailyAmounts_alwaysLast(start, end, rate) ==
    LET spans == spansDays(start, end)
        firstDailyAmount == calculateFirstDailyAmount(start, end, spans, rate)
        between == calculateDailyAmountsForFullDaysBetween(
                       MomentUnix(firstDailyAmount.endTime), end, rate)
    IN  IF ~spans THEN <<firstDailyAmount>>
        ELSE (<<firstDailyAmount>> \o between.fullDayAmounts)
                 \o <<calculateLastDailyAmount(between.lastEndTime, end, rate)>>

calculateDailyAmounts(start, end, rate) ==
    LET spans == spansDays(start, end)
        firstDailyAmount == calculateFirstDailyAmount(start, end, spans, rate)
        between == calculateDailyAmountsForFullDaysBetween(
                       MomentUnix(firstDailyAmount.endTime), end, rate)
        nextStartTime == between.lastEndTime
    IN  IF ~spans THEN <<firstDailyAmount>>
        ELSE IF IsSame(nextStartTime, end)
             THEN <<firstDailyAmount>> \o between.fullDayAmounts
             ELSE (<<firstDailyAmount>> \o between.fullDayAmounts)
                      \o <<calculateLastDailyAmount(nextStartTime, end, rate)>>

\* Lines 45-49: the interval getDailyAmounts hands to calculateDailyAmounts.
dailyAmountStartTimestamp(sp, startTs) ==
    MathMax(sp.startedAtTimestamp, startTs)

dailyAmountEndTimestamp(sp, endTs) ==
    LET isStreamTerminated == Truthy(sp.stoppedAtTimestamp)
    IN  IF isStreamTerminated
        THEN MathMin(endTs, sp.stoppedAtTimestamp[1])
        ELSE endTs

\* ------------------------------------------------------------- inputs
Offsets == {0, 1, DAY \div 2, DAY - 1}

Times == {d * DAY + o : d \in 0..MaxDay, o \in Offsets}

FlowRates == (0 - MaxRate)..MaxRate

\* Scenario A of the documentation: 2023-01-01T12:00:00Z = 1672574400 and
\* 2023-01-03T06:00:00Z = 1672725600.
ScenarioStart == 19358 * DAY + 43200

ScenarioEnd == 19360 * DAY + 21600

\* Stream periods keep stoppedAtTimestamp >= startedAtTimestamp when stopped.
SmallPeriods ==
    {sp \in [startedAtTimestamp : Times,
             stoppedAtTimestamp : {NULL} \cup {<<t>> : t \in Times},
             flowRate : FlowRates] :
        sp.stoppedAtTimestamp # NULL
            => sp.stoppedAtTimestamp[1] >= sp.startedAtTimestamp}

\* Reporting windows keep startTimestamp <= endTimestamp.
SmallWindows ==
    {w \in [startTimestamp : Times, endTimestamp : Times] :
        w.startTimestamp <= w.endTimestamp}

ScenarioPeriods ==
    [startedAtTimestamp : {ScenarioStart},
     stoppedAtTimestamp : {NULL, <<ScenarioEnd>>},
     flowRate : FlowRates]

ScenarioWindows ==
    [startTimestamp : {0, ScenarioStart}, endTimestamp : {ScenarioEnd}]

Calls ==
    (SmallPeriods \X SmallWindows) \cup (ScenarioPeriods \X ScenarioWindows)

\* ------------------------------------------------------ state machine
\* A call getDailyAmounts(streamPeriod, startTimestamp, endTimestamp) is
\* pending; nothing has been computed yet.
Init ==
    /\ pc = "idle"
    /\ \E c \in Calls :
          /\ streamPeriod = c[1]
          /\ startTimestamp = c[2].startTimestamp
          /\ endTimestamp = c[2].endTimestamp
    /\ startMoment = 0
    /\ endMoment = 0
    /\ flowRate = 0
    /\ dailyAmounts = <<>>

\* getDailyAmounts(streamPeriod, startTimestamp, endTimestamp), lines 44-57.
getDailyAmounts ==
    /\ pc = "idle"
    /\ pc' = "done"
    /\ startMoment' = MomentUnix(dailyAmountStartTimestamp(streamPeriod, startTimestamp))
    /\ endMoment' = MomentUnix(dailyAmountEndTimestamp(streamPeriod, endTimestamp))
    /\ flowRate' = streamPeriod.flowRate
    /\ dailyAmounts' = calculateDailyAmounts(startMoment', endMoment', flowRate')
    /\ UNCHANGED <<streamPeriod, startTimestamp, endTimestamp>>

Next == getDailyAmounts

Spec == Init /\ [][Next]_vars

\* ------------------------------------------------------------ properties
Done == pc = "done"

RECURSIVE SumQuantity(_)
SumQuantity(amounts) ==
    IF amounts = <<>> THEN 0
    ELSE amounts[1].quantityInToken + SumQuantity(Tail(amounts))

Interval(a) == <<a.startTime, a.endTime>>

Shape(amounts) == [i \in 1..Len(amounts) |-> Interval(amounts[i])]

Amount(s, e, q) == [startTime |-> s, endTime |-> e, quantityInToken |-> q]

\* floor_to_day(t) + 86400: the midnight following t.
NextMidnight(t) == (t \div DAY) * DAY + DAY

\* C1 (conservation): when end >= start, the quantities of the returned
\* amounts sum to (end - start) * flowRate.
C1_Conservation ==
    (Done /\ endMoment >= startMoment)
        => SumQuantity(dailyAmounts) = (endMoment - startMoment) * flowRate

C1_Witness ==
    /\ Done
    /\ endMoment > startMoment
    /\ Len(dailyAmounts) >= 3
    /\ flowRate < 0
    /\ SumQuantity(dailyAmounts) < 0

\* C2 (contiguity and coverage): when start <= end the result is non-empty,
\* starts at start, ends at end, and each amount starts where the previous
\* one ended.
C2_Contiguity ==
    (Done /\ startMoment <= endMoment)
        => /\ Len(dailyAmounts) >= 1
           /\ dailyAmounts[1].startTime = startMoment
           /\ dailyAmounts[Len(dailyAmounts)].endTime = endMoment
           /\ \A i \in 1..(Len(dailyAmounts) - 1) :
                  dailyAmounts[i].endTime = dailyAmounts[i + 1].startTime

C2_Witness ==
    /\ Done
    /\ startMoment <= endMoment
    /\ Len(dailyAmounts) >= 4
    /\ startMoment % DAY # 0
    /\ endMoment % DAY # 0

\* C3 (day alignment): when start <= end, every amount but the last ends at
\* 00:00:00 UTC (endTime mod 86400 = 0).
C3_DayAlignment ==
    (Done /\ startMoment <= endMoment)
        => \A i \in 1..(Len(dailyAmounts) - 1) : dailyAmounts[i].endTime % DAY = 0

C3_Witness ==
    /\ Done
    /\ startMoment <= endMoment
    /\ Len(dailyAmounts) >= 2
    /\ startMoment % DAY # 0
    /\ dailyAmounts[Len(dailyAmounts)].endTime % DAY # 0

\* C4 (single-day identity): when start <= end <= the midnight following
\* start, the result is exactly the one amount (start, end,
\* (end - start) * flowRate); for end = start its quantity is 0.
C4_SingleDay ==
    (Done /\ startMoment <= endMoment /\ endMoment <= NextMidnight(startMoment))
        => dailyAmounts = <<Amount(startMoment, endMoment,
                                   (endMoment - startMoment) * flowRate)>>

C4_Witness ==
    /\ Done
    /\ startMoment % DAY # 0
    /\ endMoment = NextMidnight(startMoment)
    /\ flowRate # 0
    /\ Len(dailyAmounts) = 1

\* C5 (window clipping): the decomposition is invoked with
\* max(startedAtTimestamp, window start) and, whenever stoppedAtTimestamp is
\* non-null, with min(window end, stoppedAtTimestamp); with the window end
\* only when stoppedAtTimestamp is null.
C5_WindowClipping ==
    Done =>
        /\ startMoment = MathMax(streamPeriod.startedAtTimestamp, startTimestamp)
        /\ endMoment = IF streamPeriod.stoppedAtTimestamp # NULL
                       THEN MathMin(endTimestamp, streamPeriod.stoppedAtTimestamp[1])
                       ELSE endTimestamp

\* A stream period that lies entirely outside the reporting window.
OutsideWindow ==
    \/ streamPeriod.startedAtTimestamp > endTimestamp
    \/ /\ streamPeriod.stoppedAtTimestamp # NULL
       /\ streamPeriod.stoppedAtTimestamp[1] < startTimestamp

\* C6 (empty result outside the window): a period entirely outside the
\* reporting window gets zero daily amounts.
C6_EmptyOutsideWindow ==
    (Done /\ OutsideWindow) => Len(dailyAmounts) = 0

\* C7 (inverted interval passed through): when end < start the result is
\* exactly one amount (start, end, (end - start) * flowRate), however many
\* midnights lie between end and start.
C7_InvertedInterval ==
    (Done /\ endMoment < startMoment)
        => dailyAmounts = <<Amount(startMoment, endMoment,
                                   (endMoment - startMoment) * flowRate)>>

C7_Witness ==
    /\ Done
    /\ startMoment - endMoment > 2 * DAY
    /\ flowRate > 0
    /\ Len(dailyAmounts) = 1
    /\ dailyAmounts[1].quantityInToken < 0

\* C8 (flow rate does not affect the shape): the result has the same
\* (startTime, endTime) pairs, in the same order, as the decomposition of the
\* same interval under any other flow rate; with flowRate = 0 every quantity
\* is 0.
C8_ShapeIndependentOfRate ==
    Done =>
        /\ \A r \in FlowRates :
               Shape(calculateDailyAmounts(startMoment, endMoment, r))
                   = Shape(dailyAmounts)
        /\ flowRate = 0
               => \A i \in 1..Len(dailyAmounts) : dailyAmounts[i].quantityInToken = 0

C8_Witness ==
    /\ Done
    /\ flowRate = 0
    /\ Len(dailyAmounts) >= 3
    /\ Shape(dailyAmounts)[1][1] # Shape(dailyAmounts)[1][2]

\* The closed form of C9 for end > N = NextMidnight(start).
Reference(start, end, rate) ==
    LET N == NextMidnight(start)
        k == (end - N) \div DAY
        first == <<Amount(start, N, (N - start) * rate)>>
        full == [i \in 1..k |->
                    Amount(N + (i - 1) * DAY, N + i * DAY, DAY * rate)]
        last == IF N + k * DAY # end
                THEN <<Amount(N + k * DAY, end, (end - (N + k * DAY)) * rate)>>
                ELSE <<>>
    IN  (first \o full) \o last

\* C9 (three phases): when end > N, N the midnight following start, the
\* result is [start, N), then k = floor((end - N) / 86400) full days from N,
\* each of quantity 86400 * flowRate, then [N + k * 86400, end) if and only if
\* N + k * 86400 # end.
C9_ThreePhases ==
    (Done /\ endMoment > NextMidnight(startMoment))
        => dailyAmounts = Reference(startMoment, endMoment, flowRate)

\* Scenario A: 2023-01-01T12:00:00Z to 2023-01-03T06:00:00Z at rate 1.
C9_Witness ==
    /\ Done
    /\ startMoment = 1672574400
    /\ endMoment = 1672725600
    /\ flowRate = 1
    /\ dailyAmounts = <<Amount(1672574400, 1672617600, 43200),
                        Amount(1672617600, 1672704000, 86400),
                        Amount(1672704000, 1672725600, 21600)>>

\* C10 (every amount within one UTC day): when start < end, each amount has
\* startTime < endTime <= the midnight following startTime; no zero-length
\* trailing amount when end is a midnight.
C10_WithinOneDay ==
    (Done /\ startMoment < endMoment)
        => \A i \in 1..Len(dailyAmounts) :
               /\ dailyAmounts[i].startTime < dailyAmounts[i].endTime
               /\ dailyAmounts[i].endTime <= NextMidnight(dailyAmounts[i].startTime)

C10_Witness ==
    /\ Done
    /\ endMoment % DAY = 0
    /\ endMoment > NextMidnight(startMoment)
    /\ Len(dailyAmounts) >= 2
    /\ dailyAmounts[Len(dailyAmounts)].endTime = endMoment
    /\ dailyAmounts[Len(dailyAmounts)].startTime = endMoment - DAY

====
